---- MODULE Spec2Model ----
(***************************************************************************)
(* Rollout estimators of AIToolbox::MDP (Rollout.hpp): rollout and         *)
(* adaptiveRollout, run on small generative models.                        *)
(*                                                                         *)
(* Arithmetic.  The C++ code computes in double.  All values here are      *)
(* integers in units of 1/Scale, Scale = 2^MaxDepthBound: rewards are      *)
(* small integers and discounts are 1 or 1/2, so every product             *)
(* gamma * rew and every sum is exact both in double and here.  The one    *)
(* division, windowSum / windowSize, is compared after multiplying both    *)
(* sides by windowSize.                                                    *)
(***************************************************************************)
EXTENDS Integers, Sequences, FiniteSets, TLC

\* Largest maxDepth, minDepth and windowSize argument explored.
MaxDepthBound == 3

RECURSIVE Pow(_, _)
Pow(b, e) == IF e = 0 THEN 1 ELSE b * Pow(b, e - 1)

\* One reward unit (the double 1.0).
Scale == Pow(2, MaxDepthBound)

Abs(x) == IF x < 0 THEN -x ELSE x

Last(seq) == seq[Len(seq)]

(***************************************************************************)
(* The generative models M the templates are instantiated with.            *)
(*   Chain: fixed action space, one action, deterministic, no terminal     *)
(*          state, discount 1.                                             *)
(*   Coin:  fixed action space, one action, two equally likely outcomes,   *)
(*          state 2 terminal, discount 1/2.                                *)
(*   Duo:   fixed action space, two actions, deterministic, state 2        *)
(*          terminal, discount 1/2.                                        *)
(*   Fork:  variable action space (getA(s) is 2, 1, 2), deterministic,     *)
(*          no terminal state, discount 1/2.                               *)
(* Each fixed-action model has a twin that is the same model behind the    *)
(* variable-action interface: getA(s) is the model's getA() in every       *)
(* state.                                                                  *)
(***************************************************************************)
Models == {"Chain", "Coin", "Duo", "Fork"}

FixedModels == {"Chain", "Coin", "Duo"}

VariableTwin(m) ==
    CASE m = "Chain" -> "ChainVar"
      [] m = "Coin"  -> "CoinVar"
      [] m = "Duo"   -> "DuoVar"

\* The model a twin wraps; a model that is no twin is its own base.
Base(m) ==
    IF \E f \in FixedModels : VariableTwin(f) = m
    THEN CHOOSE f \in FixedModels : VariableTwin(f) = m
    ELSE m

\* m.getS(): the states are 0 .. getS(m) - 1.
getS(m) == 3

States(m) == 0 .. (getS(m) - 1)

\* HasFixedActionSpace<M>
HasFixedActionSpace(m) == m \in FixedModels

\* m.getA() of a fixed-action model.
getA(m) ==
    CASE m = "Chain" -> 1
      [] m = "Coin"  -> 1
      [] m = "Duo"   -> 2

\* m.getA(s) of a variable-action model.
getAIn(m, s) ==
    CASE m = "Fork"  -> IF s = 1 THEN 1 ELSE 2
      [] OTHER       -> getA(Base(m))

\* The legal action indices of state s.
LegalActions(m, s) ==
    0 .. ((IF HasFixedActionSpace(m) THEN getA(m) ELSE getAIn(m, s)) - 1)

\* Number of equally likely outcomes of one sampleSR call of the model.
NumOutcomes(m) == IF Base(m) = "Coin" THEN 2 ELSE 1

Outcomes(m) == 0 .. (NumOutcomes(m) - 1)

\* Values the random source rnd can deliver to dist (reduced by Dist).
RawDraws(m) == IF Base(m) \in {"Duo", "Fork"} THEN 0 .. 1 ELSE {0}

\* m.isTerminal(s)
isTerminal(m, s) == Base(m) \in {"Coin", "Duo"} /\ s = 2

\* m.getDiscount(), in halves: 2 is the discount 1.0, 1 is the discount 0.5.
getDiscount(m) == IF Base(m) = "Chain" THEN 2 ELSE 1

\* m.sampleSR(s, a) when the model's own random engine delivers outcome o:
\* the pair (next state, reward).  Total over all indices, so that a call
\* with an illegal action index has some result.
sampleSR(m, s, a, o) ==
    CASE Base(m) = "Chain" ->
            IF s = 0 THEN [s |-> 1, rew |-> 4]
            ELSE [s |-> 2, rew |-> 1]
      [] Base(m) = "Coin" ->
            IF s = 0 THEN (IF o = 0 THEN [s |-> 0, rew |-> 1]
                                    ELSE [s |-> 1, rew |-> -2])
            ELSE IF s = 1 THEN (IF o = 0 THEN [s |-> 2, rew |-> 4]
                                         ELSE [s |-> 0, rew |-> 0])
            ELSE [s |-> 2, rew |-> 1]
      [] Base(m) = "Duo" ->
            IF s = 0 THEN (IF a = 0 THEN [s |-> 0, rew |-> 1]
                                    ELSE [s |-> 1, rew |-> 0])
            ELSE IF s = 1 THEN (IF a = 0 THEN [s |-> 1, rew |-> 2]
                                         ELSE [s |-> 2, rew |-> -3])
            ELSE [s |-> 2, rew |-> 1]
      [] Base(m) = "Fork" ->
            IF s = 0 THEN (IF a = 0 THEN [s |-> 1, rew |-> 0]
                                    ELSE [s |-> 2, rew |-> 2])
            ELSE IF s = 1 THEN (IF a = 0 THEN [s |-> 0, rew |-> 1]
                                         ELSE [s |-> 1, rew |-> -5])
            ELSE (IF a = 0 THEN [s |-> 2, rew |-> -1]
                           ELSE [s |-> 0, rew |-> 3])

\* The threshold arguments explored: -1.0, 0.0 and 1.0.
Thresholds == {-Scale, 0, Scale}

(***************************************************************************)
(* The pieces of one loop iteration.                                       *)
(***************************************************************************)

\* depth <= maxDepth: one iteration too many.
LoopCondInclusive(depth, maxDepth) == depth <= maxDepth

\* for (unsigned depth = 0; depth < maxDepth; ++depth): the loop test.
LoopCond(depth, maxDepth) == depth < maxDepth

\* A variable-action branch that builds dist once, from the start state.
DistRangeHoisted(m, start, s) ==
    IF HasFixedActionSpace(m) THEN getA(m) ELSE getAIn(m, start)

\* The number of values of the distribution dist(0, n - 1): m.getA() for a
\* fixed-action model (built once, outside the loop), m.getA(s) of the
\* current state s for a variable-action model (built in every iteration).
DistRange(m, start, s) ==
    IF HasFixedActionSpace(m) THEN getA(m) ELSE getAIn(m, s)

\* dist(rnd): the raw value the random source delivers, brought into
\* [0, n - 1].
Dist(n, raw) == raw % n

\* totalRew += rew: the discount forgotten.
AccumulateUndiscounted(totalRew, gamma, rew) == totalRew + Scale * rew

\* totalRew += gamma * rew
Accumulate(totalRew, gamma, rew) == totalRew + gamma * rew

\* gamma *= m.getDiscount() left out.
NextGammaStuck(m, gamma) == gamma

\* gamma *= m.getDiscount()
NextGamma(m, gamma) == (gamma * getDiscount(m)) \div 2

\* The locals of a call, before the loop.  nDraw, nSample and nTerm count the
\* calls of dist(rnd), m.sampleSR and m.isTerminal; acts, visited and rews
\* record the (state, action) pairs passed to sampleSR and the states and
\* rewards it returned; why is the return taken.
StartLocals(s) ==
    [pc |-> "loop", s |-> s, rew |-> 0, totalRew |-> 0, gamma |-> Scale,
     depth |-> 0, rewardWindow |-> <<>>, windowSum |-> 0,
     result |-> 0, why |-> "none",
     nDraw |-> 0, nSample |-> 0, nTerm |-> 0,
     acts |-> <<>>, visited |-> <<>>, rews |-> <<>>]

\* std::tie(s, rew) = m.sampleSR(s, dist(rnd)); totalRew += gamma * rew;
Sampled(m, start, st, raw, out) ==
    LET a  == Dist(DistRange(m, start, st.s), raw)
        sr == sampleSR(m, st.s, a, out)
    IN  [st EXCEPT !.s = sr.s, !.rew = sr.rew,
                   !.totalRew = Accumulate(st.totalRew, st.gamma, sr.rew),
                   !.nDraw = @ + 1, !.nSample = @ + 1,
                   !.acts = Append(@, <<st.s, a>>),
                   !.visited = Append(@, sr.s),
                   !.rews = Append(@, sr.rew)]

\* return totalRew;
Return(st, why) == [st EXCEPT !.pc = "done", !.result = st.totalRew, !.why = why]

\* if (m.isTerminal(s)) return totalRew;  then  gamma *= m.getDiscount();
\* and the loop's ++depth.
TerminalOrNext(m, st) ==
    IF isTerminal(m, st.s)
    THEN Return([st EXCEPT !.nTerm = @ + 1], "terminal")
    ELSE [st EXCEPT !.nTerm = @ + 1, !.gamma = NextGamma(m, st.gamma),
                    !.depth = @ + 1]

\* The terminal test moved before totalRew += gamma * rew.
RolloutIterTestFirst(m, start, st, raw, out) ==
    LET s1 == Sampled(m, start, st, raw, out)
    IN  IF isTerminal(m, s1.s)
        THEN Return([s1 EXCEPT !.totalRew = st.totalRew, !.nTerm = @ + 1], "terminal")
        ELSE TerminalOrNext(m, s1)

\* One iteration of rollout's loop.
RolloutIter(m, start, st, raw, out) ==
    TerminalOrNext(m, Sampled(m, start, st, raw, out))

\* pop_front() without windowSum -= rewardWindow.front().
PushWindowNoSubtract(st, x, windowSize) ==
    LET w == Append(st.rewardWindow, x)
        sum == st.windowSum + x
    IN  IF Len(w) > windowSize
        THEN [st EXCEPT !.rewardWindow = Tail(w), !.windowSum = sum]
        ELSE [st EXCEPT !.rewardWindow = w, !.windowSum = sum]

\* rewardWindow.push_back(gamma * rew); windowSum += gamma * rew;
\* if (rewardWindow.size() > windowSize) { windowSum -= front; pop_front; }
PushWindow(st, x, windowSize) ==
    LET w == Append(st.rewardWindow, x)
        sum == st.windowSum + x
    IN  IF Len(w) > windowSize
        THEN [st EXCEPT !.rewardWindow = Tail(w), !.windowSum = sum - Head(w)]
        ELSE [st EXCEPT !.rewardWindow = w, !.windowSum = sum]

\* rewardWindow.size() == windowSize: minDepth forgotten.
CheckDueNoMinDepth(depth, minDepth, size, windowSize) == size = windowSize

\* rewardWindow.size() <= windowSize: a window that is not full yet passes.
CheckDuePartial(depth, minDepth, size, windowSize) ==
    depth >= minDepth /\ size <= windowSize

\* depth > minDepth in place of depth >= minDepth.
CheckDueAfterMinDepth(depth, minDepth, size, windowSize) ==
    depth > minDepth /\ size = windowSize

\* depth >= minDepth && rewardWindow.size() == windowSize
CheckDue(depth, minDepth, size, windowSize) ==
    depth >= minDepth /\ size = windowSize

\* <= threshold in place of < threshold.
ConvergedInclusive(latestReward, windowSum, windowSize, threshold) ==
    Abs(latestReward * windowSize - windowSum) <= threshold * windowSize

\* std::abs(latestReward - windowSum / windowSize) < threshold, for
\* windowSize >= 1 (both sides multiplied by windowSize).
Converged(latestReward, windowSum, windowSize, threshold) ==
    Abs(latestReward * windowSize - windowSum) < threshold * windowSize

\* With windowSize = 0 the window is empty when the check is due:
\* rewardWindow.back() reads an empty deque, which is undefined.  The call
\* may abort (a checked library), or go on with a garbage latestReward and
\* avgReward = 0.0 / 0, taking either branch of the comparison.
UBOutcomes == {"abort", "return", "continue"}

\* The convergence return hands back the sum as it was before this step's
\* reward was added.
AdaptiveIterStaleSum(m, a, st, raw, out, ub) ==
    LET s1 == Sampled(m, a.s, st, raw, out)
        s2 == PushWindow(s1, st.gamma * s1.rew, a.windowSize)
        go == [s2 EXCEPT !.nTerm = @ + 1, !.gamma = NextGamma(m, st.gamma),
                         !.depth = @ + 1]
        stale == [s2 EXCEPT !.nTerm = @ + 1, !.totalRew = st.totalRew]
    IN  IF isTerminal(m, s2.s)
        THEN Return([s2 EXCEPT !.nTerm = @ + 1], "terminal")
        ELSE IF CheckDue(st.depth, a.minDepth, Len(s2.rewardWindow), a.windowSize)
        THEN IF Len(s2.rewardWindow) = 0
             THEN CASE ub = "abort" ->
                         [s2 EXCEPT !.nTerm = @ + 1, !.pc = "abort", !.why = "abort"]
                    [] ub = "return" -> Return(stale, "converged")
                    [] OTHER -> go
             ELSE IF Converged(Last(s2.rewardWindow), s2.windowSum,
                               a.windowSize, a.threshold)
                  THEN Return(stale, "converged")
                  ELSE go
        ELSE go

\* One iteration of adaptiveRollout's loop; ub is the outcome of the
\* undefined read, where there is one.
AdaptiveIter(m, a, st, raw, out, ub) ==
    LET s1 == Sampled(m, a.s, st, raw, out)
        s2 == PushWindow(s1, st.gamma * s1.rew, a.windowSize)
        go == [s2 EXCEPT !.nTerm = @ + 1, !.gamma = NextGamma(m, st.gamma),
                         !.depth = @ + 1]
    IN  IF isTerminal(m, s2.s)
        THEN Return([s2 EXCEPT !.nTerm = @ + 1], "terminal")
        ELSE IF CheckDue(st.depth, a.minDepth, Len(s2.rewardWindow), a.windowSize)
        THEN IF Len(s2.rewardWindow) = 0
             THEN CASE ub = "abort" ->
                         [s2 EXCEPT !.nTerm = @ + 1, !.pc = "abort", !.why = "abort"]
                    [] ub = "return" ->
                         Return([s2 EXCEPT !.nTerm = @ + 1], "converged")
                    [] OTHER -> go
             ELSE IF Converged(Last(s2.rewardWindow), s2.windowSum,
                               a.windowSize, a.threshold)
                  THEN Return([s2 EXCEPT !.nTerm = @ + 1], "converged")
                  ELSE go
        ELSE go

(***************************************************************************)
(* State.                                                                  *)
(*   args  the arguments of the calls: model m, start state s, maxDepth,   *)
(*         minDepth, windowSize, threshold                                 *)
(*   rnd   the values the random source rnd has delivered so far           *)
(*   env   the outcomes the model's own random engine has delivered to     *)
(*         sampleSR so far                                                 *)
(*   ro    the locals of rollout(m, s, maxDepth, rnd)                      *)
(*   ad    the locals of adaptiveRollout(m, s, maxDepth, rnd, minDepth,    *)
(*         windowSize, threshold), called on copies of the same rnd and m  *)
(*   re    the locals of a repeated call (re.fn names the function) with a *)
(*         copy of the same rnd, on the model as the first call left it    *)
(*   rnd2  the random source of adaptiveRollout where the two calls have   *)
(*         their own sources and share the model                           *)
(*   tig   the tables of makeTigerProblem and an episode on them           *)
(*   drv   the locals of POMCProck, with the calls it has made             *)
(*   pl    the planner: its search tree and the calls it has served        *)
(***************************************************************************)
VARIABLES args, rnd, env, ro, ad, re, rnd2, bld, tig, drv, pl

vars == <<args, rnd, env, ro, ad, re, rnd2, bld, tig, drv, pl>>

\* The state outside the rollout calls.
ext == <<rnd2, bld, tig, drv, pl>>

NotStarted == [pc |-> "idle"]

ExtIdle ==
    /\ rnd2 = <<>>
    /\ bld = NotStarted
    /\ tig = NotStarted
    /\ drv = NotStarted
    /\ pl = NotStarted

ArgSets ==
    [m : Models, s : 0 .. 2, maxDepth : 0 .. MaxDepthBound,
     minDepth : 0 .. MaxDepthBound, windowSize : 0 .. MaxDepthBound,
     threshold : Thresholds]

Idle == [StartLocals(0) EXCEPT !.pc = "idle"] @@ [fn |-> "none"]

Init ==
    /\ args \in ArgSets
    /\ rnd = <<>>
    /\ env = <<>>
    /\ ro = StartLocals(args.s)
    /\ ad = StartLocals(args.s)
    /\ re = Idle
    /\ ExtIdle

\* The k-th value of a stream: the recorded one, or a fresh one v that is
\* then recorded.
Reads(stream, k, v) == Len(stream) >= k => v = stream[k]

Record(stream, k, v) == IF Len(stream) >= k THEN stream ELSE Append(stream, v)

RolloutStep ==
    /\ ro.pc = "loop"
    /\ LoopCond(ro.depth, args.maxDepth)
    /\ \E raw \in RawDraws(args.m), out \in Outcomes(args.m) :
          /\ Reads(rnd, ro.nDraw + 1, raw)
          /\ Reads(env, ro.nSample + 1, out)
          /\ rnd' = Record(rnd, ro.nDraw + 1, raw)
          /\ env' = Record(env, ro.nSample + 1, out)
          /\ ro' = RolloutIter(args.m, args.s, ro, raw, out)
    /\ UNCHANGED <<args, ad, re, ext>>

RolloutReturn ==
    /\ ro.pc = "loop"
    /\ ~LoopCond(ro.depth, args.maxDepth)
    /\ ro' = Return(ro, "depth")
    /\ UNCHANGED <<args, rnd, env, ad, re, ext>>

AdaptiveStep ==
    /\ ad.pc = "loop"
    /\ LoopCond(ad.depth, args.maxDepth)
    /\ \E raw \in RawDraws(args.m), out \in Outcomes(args.m), ub \in UBOutcomes :
          /\ Reads(rnd, ad.nDraw + 1, raw)
          /\ Reads(env, ad.nSample + 1, out)
          /\ rnd' = Record(rnd, ad.nDraw + 1, raw)
          /\ env' = Record(env, ad.nSample + 1, out)
          /\ ad' = AdaptiveIter(args.m, args, ad, raw, out, ub)
    /\ UNCHANGED <<args, ro, re, ext>>

AdaptiveReturn ==
    /\ ad.pc = "loop"
    /\ ~LoopCond(ad.depth, args.maxDepth)
    /\ ad' = Return(ad, "depth")
    /\ UNCHANGED <<args, rnd, env, ro, re, ext>>

Next == RolloutStep \/ RolloutReturn \/ AdaptiveStep \/ AdaptiveReturn

Spec == Init /\ [][Next]_vars

(***************************************************************************)
(* A call repeated with a copy of the same rnd.  sampleSR(s, a) is not     *)
(* handed rnd: its outcome comes from the model's own engine, which the    *)
(* first call has advanced, so the repeated call reads fresh outcomes.     *)
(* (windowSize >= 1 here; the empty window is part of Spec.)               *)
(***************************************************************************)
Functions == {"rollout", "adaptiveRollout"}

InitRepro ==
    /\ args \in ArgSets
    /\ args.windowSize >= 1
    /\ rnd = <<>>
    /\ env = <<>>
    /\ ro = StartLocals(args.s)
    /\ ad = StartLocals(args.s)
    /\ \E fn \in Functions : re = StartLocals(args.s) @@ [fn |-> fn]
    /\ ExtIdle

\* The locals of the first call of the function re repeats.
FirstCall == IF re.fn = "rollout" THEN ro ELSE ad

RepeatStep ==
    /\ re.pc = "loop"
    /\ FirstCall.pc # "loop"
    /\ LoopCond(re.depth, args.maxDepth)
    /\ \E raw \in RawDraws(args.m), out \in Outcomes(args.m), ub \in UBOutcomes :
          /\ Reads(rnd, re.nDraw + 1, raw)
          /\ rnd' = Record(rnd, re.nDraw + 1, raw)
          /\ env' = Append(env, out)
          /\ re' = IF re.fn = "rollout"
                   THEN RolloutIter(args.m, args.s, re, raw, out)
                   ELSE AdaptiveIter(args.m, args, re, raw, out, ub)
    /\ UNCHANGED <<args, ro, ad, ext>>

RepeatReturn ==
    /\ re.pc = "loop"
    /\ FirstCall.pc # "loop"
    /\ ~LoopCond(re.depth, args.maxDepth)
    /\ re' = Return(re, "depth")
    /\ UNCHANGED <<args, rnd, env, ro, ad, ext>>

NextRepro ==
    \/ RolloutStep \/ RolloutReturn \/ AdaptiveStep \/ AdaptiveReturn
    \/ RepeatStep \/ RepeatReturn

SpecRepro == InitRepro /\ [][NextRepro]_vars

(***************************************************************************)
(* The two branches side by side.  ro and ad are the calls on a            *)
(* fixed-action model, which take the branch that builds dist once; re is  *)
(* the call of one of the two functions on the model's variable-action     *)
(* twin, which takes the branch that builds dist in every iteration.  The  *)
(* twin's call is handed a copy of rnd and the twin's engine delivers the  *)
(* outcomes the model's engine delivers: both streams are replayed.        *)
(***************************************************************************)
InitBranches ==
    /\ args \in ArgSets
    /\ args.m \in FixedModels
    /\ rnd = <<>>
    /\ env = <<>>
    /\ ro = StartLocals(args.s)
    /\ ad = StartLocals(args.s)
    /\ \E fn \in Functions : re = StartLocals(args.s) @@ [fn |-> fn]
    /\ ExtIdle

VariableStep ==
    /\ re.pc = "loop"
    /\ FirstCall.pc # "loop"
    /\ LoopCond(re.depth, args.maxDepth)
    /\ \E raw \in RawDraws(VariableTwin(args.m)),
          out \in Outcomes(VariableTwin(args.m)), ub \in UBOutcomes :
          /\ Reads(rnd, re.nDraw + 1, raw)
          /\ Reads(env, re.nSample + 1, out)
          /\ rnd' = Record(rnd, re.nDraw + 1, raw)
          /\ env' = Record(env, re.nSample + 1, out)
          /\ re' = IF re.fn = "rollout"
                   THEN RolloutIter(VariableTwin(args.m), args.s, re, raw, out)
                   ELSE AdaptiveIter(VariableTwin(args.m), args, re, raw, out, ub)
    /\ UNCHANGED <<args, ro, ad, ext>>

VariableReturn ==
    /\ re.pc = "loop"
    /\ FirstCall.pc # "loop"
    /\ ~LoopCond(re.depth, args.maxDepth)
    /\ re' = Return(re, "depth")
    /\ UNCHANGED <<args, rnd, env, ro, ad, ext>>

NextBranches ==
    \/ RolloutStep \/ RolloutReturn \/ AdaptiveStep \/ AdaptiveReturn
    \/ VariableStep \/ VariableReturn

SpecBranches == InitBranches /\ [][NextBranches]_vars

(***************************************************************************)
(* Two calls on one model, each with its own random source: rollout reads  *)
(* rnd, adaptiveRollout reads rnd2, and their loop iterations interleave   *)
(* in any order.  The model is one object: every sampleSR call, of either  *)
(* rollout, takes the next outcome env[k] of the model's one engine.  The  *)
(* three streams are fixed by their seeds.  (windowSize >= 1 here.)        *)
(***************************************************************************)
InitShared ==
    /\ args \in ArgSets
    /\ args.windowSize >= 1
    /\ rnd \in [1 .. args.maxDepth -> RawDraws(args.m)]
    /\ rnd2 \in [1 .. args.maxDepth -> RawDraws(args.m)]
    /\ bld = NotStarted
    /\ env \in [1 .. 2 * args.maxDepth -> Outcomes(args.m)]
    /\ ro = StartLocals(args.s)
    /\ ad = StartLocals(args.s)
    /\ re = Idle
    /\ tig = NotStarted
    /\ drv = NotStarted
    /\ pl = NotStarted

\* The number of outcomes the model's engine has delivered.
EngineUsed == ro.nSample + ad.nSample

SharedRolloutStep ==
    /\ ro.pc = "loop"
    /\ LoopCond(ro.depth, args.maxDepth)
    /\ ro' = RolloutIter(args.m, args.s, ro, rnd[ro.nDraw + 1], env[EngineUsed + 1])
    /\ UNCHANGED <<args, rnd, env, ad, re, ext>>

SharedAdaptiveStep ==
    /\ ad.pc = "loop"
    /\ LoopCond(ad.depth, args.maxDepth)
    /\ \E ub \in UBOutcomes :
          ad' = AdaptiveIter(args.m, args, ad, rnd2[ad.nDraw + 1],
                             env[EngineUsed + 1], ub)
    /\ UNCHANGED <<args, rnd, env, ro, re, ext>>

NextShared ==
    \/ SharedRolloutStep \/ RolloutReturn
    \/ SharedAdaptiveStep \/ AdaptiveReturn

SpecShared == InitShared /\ [][NextShared]_vars

(***************************************************************************)
(* Reference quantities, computed from the recorded steps alone.           *)
(***************************************************************************)

\* discount^k, in units of 1/Scale.
DiscountPower(m, k) == (Scale * Pow(getDiscount(m), k)) \div Pow(2, k)

\* The sum over k = from .. Len(rews) - 1 of discount^k * r_k.
RECURSIVE DiscountedSum(_, _, _)
DiscountedSum(m, rews, from) ==
    IF from >= Len(rews) THEN 0
    ELSE DiscountPower(m, from) * rews[from + 1] + DiscountedSum(m, rews, from + 1)

\* The number of steps a run that only stops at maxDepth or in a terminal
\* state takes: maxDepth, or the index of the first step landing in a
\* terminal state plus one.
StepsUntilTerminal(m, visited, maxDepth) ==
    LET hits == {i \in 1 .. Len(visited) : isTerminal(m, visited[i])}
    IN  IF hits = {} THEN maxDepth
        ELSE CHOOSE i \in hits : \A j \in hits : i <= j

NonTerminalSteps(m, visited) ==
    Cardinality({i \in 1 .. Len(visited) : ~isTerminal(m, visited[i])})

Finished(st) == st.pc # "loop"

(***************************************************************************)
(* C1.  With windowSize >= maxDepth or minDepth >= maxDepth, on a          *)
(* fixed-action model and the same random stream, adaptiveRollout returns  *)
(* the same discounted sum as rollout, visits the same states and draws    *)
(* the same number of random values.                                       *)
(***************************************************************************)
C1_NeverTriggers ==
    args.windowSize >= args.maxDepth \/ args.minDepth >= args.maxDepth

C1_AdaptiveEqualsRollout ==
    (HasFixedActionSpace(args.m) /\ C1_NeverTriggers
        /\ Finished(ro) /\ Finished(ad))
    => /\ ad.pc = "done"
       /\ ad.result = ro.result
       /\ ad.visited = ro.visited
       /\ ad.nDraw = ro.nDraw

\* The window fills exactly at the last step and the convergence test
\* passes there: the early return coincides with the end of the loop.
C1_Witness ==
    /\ HasFixedActionSpace(args.m)
    /\ args.windowSize = args.maxDepth
    /\ args.minDepth < args.maxDepth
    /\ args.maxDepth >= 2
    /\ ro.pc = "done" /\ ro.why = "depth"
    /\ ad.pc = "done" /\ ad.why = "converged"

(***************************************************************************)
(* C2.  rollout returns the sum over k = 0 .. n-1 of discount^k * r_k,     *)
(* where n is maxDepth or the index of the first step landing in a         *)
(* terminal state plus one; the first reward is undiscounted and the       *)
(* discount factor advances only after a non-terminal step.                *)
(***************************************************************************)
C2_RolloutDiscountedSum ==
    /\ ro.totalRew = DiscountedSum(args.m, ro.rews, 0)
    /\ ro.gamma = DiscountPower(args.m, NonTerminalSteps(args.m, ro.visited))
    /\ ro.pc = "done" =>
          /\ ro.result = DiscountedSum(args.m, ro.rews, 0)
          /\ Len(ro.rews) = StepsUntilTerminal(args.m, ro.visited, args.maxDepth)

C2_Witness ==
    /\ ro.pc = "done"
    /\ ro.why = "terminal"
    /\ Len(ro.rews) = 2
    /\ args.maxDepth = 3
    /\ ro.rews[1] # 0 /\ ro.rews[2] # 0
    /\ ro.result # Scale * (ro.rews[1] + ro.rews[2])

(***************************************************************************)
(* C4.  adaptiveRollout never returns by convergence while the window      *)
(* holds fewer than windowSize entries, nor at a step index below          *)
(* minDepth: a convergence return at step d has d + 1 >= windowSize and    *)
(* d >= minDepth.                                                          *)
(***************************************************************************)
C4_NoEarlyConvergence ==
    ad.why = "converged" =>
        LET d == Len(ad.visited) - 1
        IN  /\ d + 1 >= args.windowSize
            /\ d >= args.minDepth
            /\ Len(ad.rewardWindow) >= args.windowSize

C4_Witness ==
    /\ ad.why = "converged"
    /\ args.windowSize = 2
    /\ args.minDepth = 1
    /\ Len(ad.visited) = 2
    /\ args.maxDepth = 3

(***************************************************************************)
(* C5.  In rollout and adaptiveRollout, a step landing in a terminal state *)
(* makes the function return the accumulated sum including that step's     *)
(* reward, and no sampleSR call or action draw follows it.                 *)
(***************************************************************************)
C5_StopsAtTerminalOf(st) ==
    /\ \A i \in 1 .. Len(st.visited) - 1 : ~isTerminal(args.m, st.visited[i])
    /\ st.nDraw = Len(st.visited)
    /\ st.nSample = Len(st.visited)
    /\ (Len(st.visited) >= 1 /\ isTerminal(args.m, Last(st.visited))) =>
          /\ st.pc = "done"
          /\ st.why = "terminal"
          /\ st.result = DiscountedSum(args.m, st.rews, 0)

C5_StopsAtTerminal == C5_StopsAtTerminalOf(ro) /\ C5_StopsAtTerminalOf(ad)

C5_Witness ==
    /\ ro.why = "terminal" /\ ad.why = "terminal"
    /\ Len(ro.visited) = 2 /\ Len(ad.visited) = 2
    /\ args.maxDepth = 3
    /\ Last(ro.rews) # 0

(***************************************************************************)
(* C6.  Every action index passed to sampleSR is a legal action of the     *)
(* state it is applied to, which is the current state of the run: in       *)
(* [0, getA()) for a fixed-action model, in [0, getA(s)) for a             *)
(* variable-action model.  (Every state of the models has an action.)      *)
(***************************************************************************)
C6_LegalActionsOf(st) ==
    \A i \in 1 .. Len(st.acts) :
        /\ st.acts[i][1] = (IF i = 1 THEN args.s ELSE st.visited[i - 1])
        /\ st.acts[i][2] \in LegalActions(args.m, st.acts[i][1])

C6_LegalActions == C6_LegalActionsOf(ro) /\ C6_LegalActionsOf(ad)

\* A variable-action run that has moved from a state with two actions to a
\* state with one and has sampled there.
C6_Witness ==
    /\ ~HasFixedActionSpace(args.m)
    /\ \E i \in 2 .. Len(ro.acts) :
          Cardinality(LegalActions(args.m, ro.acts[i][1]))
              < Cardinality(LegalActions(args.m, args.s))
    /\ \E i \in 2 .. Len(ad.acts) :
          Cardinality(LegalActions(args.m, ad.acts[i][1]))
              < Cardinality(LegalActions(args.m, args.s))

(***************************************************************************)
(* C7.  rollout and adaptiveRollout end after at most maxDepth steps, each *)
(* step making exactly one action draw and one sampleSR call; with         *)
(* maxDepth = 0 they return 0 without calling sampleSR or isTerminal.      *)
(***************************************************************************)
C7_BoundedOf(st) ==
    /\ st.nSample <= args.maxDepth
    /\ st.nDraw = st.nSample
    /\ Len(st.visited) = st.nSample
    /\ st.pc = "loop" => st.depth = st.nSample
    /\ (args.maxDepth = 0 /\ Finished(st)) =>
          st.pc = "done" /\ st.result = 0 /\ st.nSample = 0 /\ st.nTerm = 0

C7_Terminates ==
    /\ C7_BoundedOf(ro)
    /\ C7_BoundedOf(ad)
    /\ ro.pc = "loop" => ENABLED (RolloutStep \/ RolloutReturn)
    /\ ad.pc = "loop" => ENABLED (AdaptiveStep \/ AdaptiveReturn)

C7_Witness ==
    /\ args.maxDepth = MaxDepthBound
    /\ ro.pc = "done" /\ ro.why = "depth" /\ ro.nSample = args.maxDepth
    /\ ad.pc = "done" /\ ad.why = "depth" /\ ad.nSample = args.maxDepth

(***************************************************************************)
(* The functions as folds over a whole stream: stream[k] is the pair       *)
(* (value of rnd, outcome of the model's engine) of step k.                *)
(***************************************************************************)
RECURSIVE RolloutRun(_, _, _)
RolloutRun(a, st, stream) ==
    IF st.pc # "loop" THEN st
    ELSE IF ~LoopCond(st.depth, a.maxDepth) THEN Return(st, "depth")
    ELSE RolloutRun(a, RolloutIter(a.m, a.s, st, stream[st.nDraw + 1][1],
                                   stream[st.nSample + 1][2]), stream)

RECURSIVE AdaptiveRun(_, _, _)
AdaptiveRun(a, st, stream) ==
    IF st.pc # "loop" THEN st
    ELSE IF ~LoopCond(st.depth, a.maxDepth) THEN Return(st, "depth")
    ELSE AdaptiveRun(a, AdaptiveIter(a.m, a, st, stream[st.nDraw + 1][1],
                                     stream[st.nSample + 1][2], "continue"), stream)

\* All streams of maxDepth steps; they are equally likely.
Streams(a) == [1 .. a.maxDepth -> RawDraws(a.m) \X Outcomes(a.m)]

RECURSIVE SumOver(_, _, _)
SumOver(F(_, _), a, streams) ==
    IF streams = {} THEN 0
    ELSE LET x == CHOOSE y \in streams : TRUE
         IN  F(a, x) + SumOver(F, a, streams \ {x})

RolloutResult(a, stream) == RolloutRun(a, StartLocals(a.s), stream).result

AdaptiveResult(a, stream) == AdaptiveRun(a, StartLocals(a.s), stream).result

\* The discounted rewards of the steps rollout takes on the stream and
\* adaptiveRollout does not.
TruncatedTail(a, stream) ==
    DiscountedSum(a.m, RolloutRun(a, StartLocals(a.s), stream).rews,
                  Len(AdaptiveRun(a, StartLocals(a.s), stream).rews))

IsPrefix(p, q) == Len(p) <= Len(q) /\ \A i \in 1 .. Len(p) : p[i] = q[i]

(***************************************************************************)
(* C3.  adaptiveRollout returns by convergence at step d exactly when the  *)
(* step did not land in a terminal state, d >= minDepth, the window holds  *)
(* exactly windowSize entries and |latest discounted reward - windowSum /  *)
(* windowSize| < threshold; it then returns the accumulated sum including  *)
(* step d's reward, and otherwise it continues to step d + 1.              *)
(***************************************************************************)
C3_Condition ==
    LET d == Len(ad.visited) - 1
        latest == DiscountPower(args.m, d) * Last(ad.rews)
    IN  /\ ~isTerminal(args.m, Last(ad.visited))
        /\ d >= args.minDepth
        /\ Len(ad.rewardWindow) = args.windowSize
        /\ Abs(latest * args.windowSize - ad.windowSum)
              < args.threshold * args.windowSize

C3_ConvergesExactlyWhen ==
    Len(ad.visited) >= 1 =>
        /\ ad.why = "converged" <=> C3_Condition
        /\ ad.why = "converged" =>
              ad.pc = "done" /\ ad.result = DiscountedSum(args.m, ad.rews, 0)
        /\ (~C3_Condition /\ ~isTerminal(args.m, Last(ad.visited))) =>
              \/ ad.pc = "loop" /\ ad.depth = Len(ad.visited)
              \/ ad.pc = "done" /\ ad.why = "depth"

(***************************************************************************)
(* C8.  Early termination does not change the expected return: the mean of *)
(* adaptiveRollout's result over all equally likely streams equals the     *)
(* mean of rollout's over the same streams; on a deterministic             *)
(* single-action model the two results are equal.                          *)
(***************************************************************************)
DeterministicSingleAction(m) ==
    /\ HasFixedActionSpace(m)
    /\ getA(m) = 1
    /\ NumOutcomes(m) = 1

\* The means are sums over the same number of streams; they are compared
\* once both calls have ended.
C8_SameExpectedReturn ==
    (Finished(ro) /\ Finished(ad)) =>
        /\ args.windowSize >= 1 =>
              SumOver(AdaptiveResult, args, Streams(args))
                  = SumOver(RolloutResult, args, Streams(args))
        /\ DeterministicSingleAction(args.m) =>
              ad.pc = "done" /\ ad.result = ro.result

(***************************************************************************)
(* C8, amended.  Early termination changes the return by the truncated     *)
(* tail alone: on every stream adaptiveRollout's steps are the first of    *)
(* rollout's and rollout's result minus adaptiveRollout's is the           *)
(* discounted sum of the rewards of the steps adaptiveRollout did not      *)
(* take, so the mean of adaptiveRollout's result is the mean of rollout's  *)
(* minus the mean of that tail.                                            *)
(***************************************************************************)
C8_DiffersByTruncatedTail ==
    (Finished(ro) /\ Finished(ad)) =>
        /\ ad.pc = "done" =>
              /\ IsPrefix(ad.rews, ro.rews)
              /\ ro.result - ad.result
                    = DiscountedSum(args.m, ro.rews, Len(ad.rews))
        /\ args.windowSize >= 1 =>
              SumOver(RolloutResult, args, Streams(args))
                    - SumOver(AdaptiveResult, args, Streams(args))
                  = SumOver(TruncatedTail, args, Streams(args))

C8_Witness ==
    /\ args.m = "Coin"
    /\ Finished(ro)
    /\ ad.pc = "done" /\ ad.why = "converged"
    /\ Len(ad.rews) < Len(ro.rews)
    /\ ro.result # ad.result
    /\ SumOver(RolloutResult, args, Streams(args))
          # SumOver(AdaptiveResult, args, Streams(args))

(***************************************************************************)
(* C9.  A negative threshold is rejected before any simulation step:       *)
(* adaptiveRollout called with threshold < 0 makes no sampleSR call and    *)
(* yields a failure instead of a return value.                             *)
(***************************************************************************)
C9_NegativeThresholdRejected ==
    args.threshold < 0 => ad.nSample = 0 /\ ad.pc # "done"

(***************************************************************************)
(* C10.  Two calls with the same model, start state, parameters and the    *)
(* same random stream rnd return the same value, take the same steps and   *)
(* leave rnd in the same position.                                         *)
(***************************************************************************)
C10_Reproducible ==
    (re.fn \in Functions /\ Finished(FirstCall) /\ Finished(re)) =>
        /\ re.pc = FirstCall.pc
        /\ re.result = FirstCall.result
        /\ re.visited = FirstCall.visited
        /\ re.nDraw = FirstCall.nDraw

(***************************************************************************)
(* C19.  adaptiveRollout is a truncation of rollout: on the same model,    *)
(* start state and random stream, the states it visits, the actions it     *)
(* draws and the rewards it gets in its n steps are the first n of         *)
(* rollout's with the same maxDepth, and its return equals rollout's       *)
(* return with maxDepth set to n.                                          *)
(***************************************************************************)
\* The stream read so far: step k read rnd[k] and env[k].
StreamSoFar == [k \in 1 .. Len(rnd) |-> <<rnd[k], env[k]>>]

AgreeOnCommonSteps(p, q) ==
    \A i \in 1 .. Len(p) : i <= Len(q) => p[i] = q[i]

C19_AdaptiveTruncatesRollout ==
    /\ AgreeOnCommonSteps(ad.visited, ro.visited)
    /\ AgreeOnCommonSteps(ad.acts, ro.acts)
    /\ AgreeOnCommonSteps(ad.rews, ro.rews)
    /\ (Finished(ad) /\ Finished(ro)) => Len(ad.visited) <= Len(ro.visited)
    /\ ad.pc = "done" =>
          ad.result = RolloutResult([args EXCEPT !.maxDepth = Len(ad.visited)],
                                    StreamSoFar)

C19_Witness ==
    /\ ad.pc = "done" /\ ad.why = "converged"
    /\ ro.pc = "done"
    /\ Len(ad.visited) = 2
    /\ Len(ro.visited) = 3
    /\ ad.result # ro.result
    /\ Cardinality(RawDraws(args.m)) > 1

(***************************************************************************)
(* C20.  Sliding window of adaptiveRollout, windowSize >= 1: after the     *)
(* window update of step d the window holds exactly the                    *)
(* min(d + 1, windowSize) most recent discounted rewards discount^k * r_k  *)
(* in step order, never more than windowSize entries, and windowSum is the *)
(* sum of the entries in the window.                                       *)
(***************************************************************************)
RECURSIVE SeqSum(_)
SeqSum(seq) == IF seq = <<>> THEN 0 ELSE Head(seq) + SeqSum(Tail(seq))

Min(x, y) == IF x <= y THEN x ELSE y

C20_SlidingWindow ==
    args.windowSize >= 1 =>
        LET n == Len(ad.rews)
            k == Min(n, args.windowSize)
        IN  /\ Len(ad.rewardWindow) = k
            /\ Len(ad.rewardWindow) <= args.windowSize
            /\ \A i \in 1 .. k :
                  ad.rewardWindow[i]
                      = DiscountPower(args.m, n - k + i - 1) * ad.rews[n - k + i]
            /\ ad.windowSum = SeqSum(ad.rewardWindow)

\* The window has slid: a nonzero reward has been dropped from it.
C20_Witness ==
    /\ args.windowSize = 2
    /\ Len(ad.rews) = 3
    /\ Len(ad.rewardWindow) = 2
    /\ ad.rews[1] # 0
    /\ getDiscount(args.m) = 1

(***************************************************************************)
(* C11.  Two rollouts that share one model but have their own random       *)
(* source may have their steps interleaved in any order: each returns the  *)
(* value it returns when it runs alone (alone, a call reads its own random *)
(* source and the model's outcomes from the first on).  The arguments,     *)
(* passed by value, are never written.                                     *)
(***************************************************************************)
AloneStream(source) == [k \in 1 .. args.maxDepth |-> <<source[k], env[k]>>]

C11_InterleavingInvisible ==
    /\ ro.pc = "done" => ro.result = RolloutResult(args, AloneStream(rnd))
    /\ ad.pc = "done" => ad.result = AdaptiveResult(args, AloneStream(rnd2))

(***************************************************************************)
(* testerplease (tiger_door.cpp): the rock-sampling model POMCProck plans  *)
(* on.  A state index is position + 25 * (the rocks' states as a base-3    *)
(* number), position = x + GRID_SIZE * y.  Transition probabilities are    *)
(* in tenths (MOVE_PROB = 0.9 is 9), rewards in whole units.               *)
(*                                                                         *)
(* The tables are boost multi_arrays [S][A][S] in one row-major block and  *)
(* are zeroed first; the entries below are the writes the builder makes    *)
(* for state s, in the order of the code.                                  *)
(***************************************************************************)
GRID_SIZE == 5

NUM_ROCKS == 4

ModelS == GRID_SIZE * GRID_SIZE * Pow(3, NUM_ROCKS)

ModelA == 9

ModelO == 3

MOVE_PROB == 9

ProbOne == 10

\* ROCK_POSITIONS[r + 1] is the (x, y) of rock r.
ROCK_POSITIONS == << <<0, 0>>, <<1, 0>>, <<2, 0>>, <<0, 1>> >>

getRockState(s, rockIndex) == (s \div (25 * Pow(3, rockIndex))) % 3

\* x | y on size_t.
RECURSIVE BitOr(_, _)
BitOr(x, y) ==
    IF x = 0 THEN y
    ELSE IF y = 0 THEN x
    ELSE (IF x % 2 = 1 \/ y % 2 = 1 THEN 1 ELSE 0) + 2 * BitOr(x \div 2, y \div 2)

\* (s & ~bits) | bits, which is s | bits.
setRockSampled(s, rockIndex) == BitOr(s, 2 * Pow(3, rockIndex) * 25)

PosX(s) == (s % (GRID_SIZE * GRID_SIZE)) % GRID_SIZE

PosY(s) == (s % (GRID_SIZE * GRID_SIZE)) \div GRID_SIZE

\* The rock the sample loop stops at (it breaks at the first match).
RocksHere(s) ==
    {r \in 0 .. NUM_ROCKS - 1 : ROCK_POSITIONS[r + 1] = <<PosX(s), PosY(s)>>}

SampleHits(s) ==
    /\ RocksHere(s) # {}
    /\ getRockState(s, CHOOSE r \in RocksHere(s) : TRUE) # 2

SampleTarget(s) ==
    IF SampleHits(s) THEN setRockSampled(s, CHOOSE r \in RocksHere(s) : TRUE)
    ELSE s

SampleReward(s) ==
    IF SampleHits(s) /\ getRockState(s, CHOOSE r \in RocksHere(s) : TRUE) = 1
    THEN 10 ELSE -10

MoveWrites(s, a, canMove, target) ==
    IF canMove
    THEN << [a |-> a, sp |-> target, v |-> MOVE_PROB],
            [a |-> a, sp |-> s, v |-> ProbOne - MOVE_PROB] >>
    ELSE << [a |-> a, sp |-> s, v |-> ProbOne] >>

\* transitions[s][a][sp] = v, lines 1054-1111.
TransitionWrites(s) ==
    MoveWrites(s, 0, PosY(s) < GRID_SIZE - 1, s + GRID_SIZE)
    \o MoveWrites(s, 1, PosY(s) > 0, s - GRID_SIZE)
    \o MoveWrites(s, 2, PosX(s) < GRID_SIZE - 1, s + 1)
    \o MoveWrites(s, 3, PosX(s) > 0, s - 1)
    \o << [a |-> 4, sp |-> SampleTarget(s), v |-> ProbOne] >>
    \o [r \in 1 .. NUM_ROCKS |-> [a |-> r + 4, sp |-> s, v |-> ProbOne]]

\* rewards[s][a][sp] = v, lines 1075-1106.
RewardWrites(s) ==
    (IF PosX(s) = GRID_SIZE - 2 THEN << [a |-> 2, sp |-> s + 1, v |-> 10] >>
     ELSE << >>)
    \o << [a |-> 4, sp |-> SampleTarget(s), v |-> SampleReward(s)] >>

InBounds(w) == w.a < ModelA /\ w.sp >= 0 /\ w.sp < ModelS

(***************************************************************************)
(* A write whose last index is S or more is outside the table: undefined   *)
(* behaviour.  A build that checks multi_array indices stops there; one    *)
(* that does not computes the element's address in the block, which is     *)
(* that of [s][a + 1][sp - S].                                             *)
(***************************************************************************)
BuildOutcomes == {"abort", "built"}

Cell(w) == IF w.sp < ModelS THEN <<w.a, w.sp>> ELSE <<w.a + 1, w.sp - ModelS>>

\* The value a table holds at [a][sp] of row s after the writes: the last
\* one to that cell, 0 where none.
Stored(writes, a, sp) ==
    LET hits == {i \in DOMAIN writes : Cell(writes[i]) = <<a, sp>>}
    IN  IF hits = {} THEN 0
        ELSE writes[CHOOSE i \in hits : \A j \in hits : j <= i].v

transitions(s, a, sp) == Stored(TransitionWrites(s), a, sp)

rewards(s, a, sp) == Stored(RewardWrites(s), a, sp)

\* The observations o with observations[s][a][o] > 0 (lines 1016-1020,
\* 1109-1128): "none" (2) is set to 1.0 for every (s, a) and never cleared;
\* a check of a rock that is not sampled adds good (0) and bad (1) with
\* probabilities correctProb and 1 - correctProb, or the reverse, where
\* correctProb = 0.5 + 0.5 * exp(-0.5 * dist) is 1 at the rock itself.
ObservationSupport(s, a) ==
    IF a >= 5 /\ getRockState(s, a - 5) # 2
    THEN IF ROCK_POSITIONS[a - 4] = <<PosX(s), PosY(s)>>
         THEN {IF getRockState(s, a - 5) = 1 THEN 0 ELSE 1, 2}
         ELSE {0, 1, 2}
    ELSE {2}

\* Every index the builder writes is inside the tables.
BuilderInBounds ==
    \A s \in 0 .. ModelS - 1 :
        /\ \A i \in DOMAIN TransitionWrites(s) : InBounds(TransitionWrites(s)[i])
        /\ \A i \in DOMAIN RewardWrites(s) : InBounds(RewardWrites(s)[i])

(***************************************************************************)
(* The observation table.  correctProb = 0.5 + 0.5 * exp(-0.5 * dist) is   *)
(* not a rational number in general, so an entry is kept as the pair       *)
(* (one, c) standing for one * 1.0 + c * correctProb: 1.0 is (1, 0),       *)
(* correctProb is (0, 1) and 1.0 - correctProb is (1, -1).                 *)
(***************************************************************************)
Prob(one, c) == [one |-> one, c |-> c]

ProbAdd(p, q) == Prob(p.one + q.one, p.c + q.c)

\* Lines 1016-1020: every row starts as (0, 0, 1.0).
ObservationDefault(o) == IF o = 2 THEN Prob(1, 0) ELSE Prob(0, 0)

\* observations[s][a][o] = v, lines 1109-1128.
CheckWrites(s, r) ==
    IF getRockState(s, r) = 2
    THEN << [a |-> r + 5, o |-> 2, v |-> Prob(1, 0)] >>
    ELSE IF getRockState(s, r) = 1
    THEN << [a |-> r + 5, o |-> 0, v |-> Prob(0, 1)],
            [a |-> r + 5, o |-> 1, v |-> Prob(1, -1)] >>
    ELSE << [a |-> r + 5, o |-> 0, v |-> Prob(1, -1)],
            [a |-> r + 5, o |-> 1, v |-> Prob(0, 1)] >>

ObservationWrites(s) ==
    CheckWrites(s, 0) \o CheckWrites(s, 1) \o CheckWrites(s, 2) \o CheckWrites(s, 3)

observations(s, a, o) ==
    LET writes == ObservationWrites(s)
        hits == {i \in DOMAIN writes : writes[i].a = a /\ writes[i].o = o}
    IN  IF hits = {} THEN ObservationDefault(o)
        ELSE writes[CHOOSE i \in hits : \A j \in hits : j <= i].v

ObservationRowSum(s, a) ==
    ProbAdd(observations(s, a, 0),
            ProbAdd(observations(s, a, 1), observations(s, a, 2)))

\* The columns of row [s][a] that a write lands in; every other entry of
\* the row is the 0.0 of lines 1011-1014.
WrittenColumns(s, a) ==
    {Cell(TransitionWrites(s)[i])[2] :
        i \in {j \in DOMAIN TransitionWrites(s) : Cell(TransitionWrites(s)[j])[1] = a}}

RECURSIVE SumTransitions(_, _, _)
SumTransitions(s, a, columns) ==
    IF columns = {} THEN 0
    ELSE LET sp == CHOOSE c \in columns : TRUE
         IN  transitions(s, a, sp) + SumTransitions(s, a, columns \ {sp})

\* Lines 1135-1138: sum += transitions[s][a][sp] over sp, in tenths.
TransitionRowSum(s, a) == SumTransitions(s, a, WrittenColumns(s, a))

\* Lines 1139-1142: the actions of row s the validation loop prints.  The
\* values are multiples of 0.1 and the test has a tolerance of 1e-9.
InvalidActions(s) == {a \in 0 .. ModelA - 1 : TransitionRowSum(s, a) # ProbOne}

RowInBounds(s) ==
    /\ \A i \in DOMAIN TransitionWrites(s) : InBounds(TransitionWrites(s)[i])
    /\ \A i \in DOMAIN RewardWrites(s) : InBounds(RewardWrites(s)[i])

(***************************************************************************)
(* testerplease as a process: the zeroing loop, the loop that fills one    *)
(* row s of the three tables per iteration, the validation loop, the       *)
(* return.  bld.s is the loop index, bld.outside the rows with a write     *)
(* outside the tables, bld.reported the (s, a) the validation loop prints. *)
(***************************************************************************)
BuilderLocals ==
    [pc |-> "zero", s |-> 0, outside |-> {}, reported |-> {}]

InitBuilder ==
    /\ bld = BuilderLocals
    /\ args = NotStarted
    /\ rnd = << >>
    /\ env = << >>
    /\ ro = Idle
    /\ ad = Idle
    /\ re = Idle
    /\ rnd2 = << >>
    /\ tig = NotStarted
    /\ drv = NotStarted
    /\ pl = NotStarted

\* Lines 1009-1021.
BuilderZero ==
    /\ bld.pc = "zero"
    /\ bld' = [bld EXCEPT !.pc = "fill"]
    /\ UNCHANGED <<args, rnd, env, ro, ad, re, rnd2, tig, drv, pl>>

\* Lines 1049-1129: one iteration of the loop over s.
BuilderFill ==
    /\ bld.pc = "fill"
    /\ bld.s < ModelS
    /\ \E build \in BuildOutcomes :
          IF RowInBounds(bld.s)
          THEN /\ build = "built"
               /\ bld' = [bld EXCEPT !.s = @ + 1]
          ELSE IF build = "abort"
          THEN bld' = [bld EXCEPT !.pc = "abort", !.outside = @ \cup {bld.s}]
          ELSE bld' = [bld EXCEPT !.s = @ + 1, !.outside = @ \cup {bld.s}]
    /\ UNCHANGED <<args, rnd, env, ro, ad, re, rnd2, tig, drv, pl>>

\* Line 1049, s = S: the loop ends and the validation loop starts.
BuilderFilled ==
    /\ bld.pc = "fill"
    /\ bld.s = ModelS
    /\ bld' = [bld EXCEPT !.pc = "validate", !.s = 0]
    /\ UNCHANGED <<args, rnd, env, ro, ad, re, rnd2, tig, drv, pl>>

\* Lines 1132-1144: one iteration of the validation loop over s.
BuilderValidate ==
    /\ bld.pc = "validate"
    /\ bld.s < ModelS
    /\ bld' = [bld EXCEPT
          !.s = @ + 1,
          !.reported = @ \cup {<<bld.s, a>> : a \in InvalidActions(bld.s)}]
    /\ UNCHANGED <<args, rnd, env, ro, ad, re, rnd2, tig, drv, pl>>

\* Lines 1146-1151.
BuilderReturn ==
    /\ bld.pc = "validate"
    /\ bld.s = ModelS
    /\ bld' = [bld EXCEPT !.pc = "done"]
    /\ UNCHANGED <<args, rnd, env, ro, ad, re, rnd2, tig, drv, pl>>

NextBuilder ==
    \/ BuilderZero \/ BuilderFill \/ BuilderFilled
    \/ BuilderValidate \/ BuilderReturn

SpecBuilder == InitBuilder /\ [][NextBuilder]_vars

(***************************************************************************)
(* POMCProck (tiger_door.cpp): the loop that drives the planner on the     *)
(* model of testerplease.                                                  *)
(*                                                                         *)
(* The model's sampleSOR and the planner are library code.  sampleSOR(s,   *)
(* a) draws a next state sp with transitions[s][a][sp] > 0, an observation *)
(* with observations[sp][a][o] > 0 and returns rewards[s][a][sp]; on a row *)
(* of zeros its draw is not specified and may be any state.  The planner's *)
(* two sampleAction entry points return an action of the model; decidedBy  *)
(* names the entry point whose answer the loop executes, and adviceKept    *)
(* tells whether the answer of sampleAction(action, observation, t) is     *)
(* assigned to anything.                                                   *)
(***************************************************************************)
DriverGRID_SIZE == 4

DriverNUM_ROCKS == 4

beliefSize == 1500

iterations == 1500

explorationConstant == 25

DriverS == DriverGRID_SIZE * DriverGRID_SIZE * Pow(3, DriverNUM_ROCKS)

\* Largest horizon explored.
MaxHorizon == 2

\* The initial states explored, of the DriverS the belief can yield: a
\* corner with a rock, the column left of the east edge, a rock whose
\* sampling changes the position, and the last index of the belief.
StartSample == {0, 3, 25, DriverS - 1}

PlannerAnswers == 0 .. ModelA - 1

NextSupport(s, a) ==
    LET written == {Cell(TransitionWrites(s)[i])[2] : i \in DOMAIN TransitionWrites(s)}
        support == {sp \in written : transitions(s, a, sp) > 0}
    IN  IF support = {} THEN 0 .. ModelS - 1 ELSE support

sampleSOR(s, a) ==
    UNION {{<<sp, o, rewards(s, a, sp)>> : o \in ObservationSupport(sp, a)} :
              sp \in NextSupport(s, a)}

DriverLocals(horizon) ==
    [pc |-> "start", horizon |-> horizon, t |-> 0,
     belief |-> [len |-> 0, num |-> 0, den |-> 1],
     solver |-> NotStarted,
     initialState |-> 0, currentState |-> 0, nextState |-> 0,
     observation |-> 0, action |-> 0, reward |-> 0, totalReward |-> 0,
     result |-> 0,
     \* what the planner was asked and answered, and the environment steps
     decidedBy |-> "none", adviceKept |-> FALSE,
     beliefCalls |-> 0, advanceCalls |-> 0, iter |-> 0,
     ts |-> << >>, rews |-> << >>]

InitDriver ==
    /\ \E horizon \in 0 .. MaxHorizon : drv = DriverLocals(horizon)
    /\ args = NotStarted
    /\ rnd = << >>
    /\ env = << >>
    /\ ro = Idle
    /\ ad = Idle
    /\ re = Idle
    /\ rnd2 = << >>
    /\ bld = NotStarted
    /\ tig = NotStarted
    /\ pl = NotStarted

\* Lines 1157-1203: the model, the belief, the initial state, the solver.
DriverSetup ==
    /\ drv.pc = "start"
    /\ \E build \in BuildOutcomes :
          IF build = "abort" /\ ~BuilderInBounds
          THEN drv' = [drv EXCEPT !.pc = "aborted"]
          ELSE \E initialState \in StartSample :
                 drv' = [drv EXCEPT
                    !.pc = "loop",
                    !.belief = [len |-> DriverS, num |-> 1, den |-> DriverS],
                    !.initialState = initialState,
                    !.solver = [beliefSize |-> beliefSize,
                                iterations |-> iterations,
                                exp |-> explorationConstant],
                    !.currentState = initialState,
                    !.nextState = initialState,
                    !.t = drv.horizon]
    /\ UNCHANGED <<args, rnd, env, ro, ad, re, rnd2, bld, tig, pl>>

\* Lines 1207-1223: one iteration of the planning loop.
DriverIter ==
    /\ drv.pc = "loop"
    /\ drv.t > 0
    /\ \E action \in PlannerAnswers :
       \E sor \in sampleSOR(drv.currentState, action) :
          drv' = [drv EXCEPT
             !.action = action,
             !.decidedBy = "belief",
             !.beliefCalls = @ + 1,
             !.nextState = sor[1],
             !.observation = sor[2],
             !.reward = sor[3],
             !.totalReward = @ + sor[3],
             !.advanceCalls = @ + 1,
             !.adviceKept = FALSE,
             !.currentState = sor[1],
             !.iter = @ + 1,
             !.ts = Append(@, drv.t),
             !.rews = Append(@, sor[3]),
             !.t = @ - 1]
    /\ UNCHANGED <<args, rnd, env, ro, ad, re, rnd2, bld, tig, pl>>

\* Lines 1226-1239.
DriverReturn ==
    /\ drv.pc = "loop"
    /\ ~(drv.t > 0)
    /\ drv' = [drv EXCEPT !.pc = "done", !.result = drv.totalReward]
    /\ UNCHANGED <<args, rnd, env, ro, ad, re, rnd2, bld, tig, pl>>

NextDriver == DriverSetup \/ DriverIter \/ DriverReturn

SpecDriver == InitDriver /\ [][NextDriver]_vars

(***************************************************************************)
(* C12.  In POMCProck the planner is asked by belief only for the first    *)
(* decision of an episode; the action executed at every later step is the  *)
(* one the preceding call sampleAction(action, observation, t) returned.    *)
(***************************************************************************)
C12_AdviceIsExecuted ==
    drv.pc \in {"loop", "done"} /\ drv.iter >= 1 =>
        /\ drv.beliefCalls = 1
        /\ drv.iter >= 2 =>
              /\ drv.decidedBy = "advance"
              /\ drv.adviceKept

(***************************************************************************)
(* C13.  The initial belief POMCProck hands to the planner is a            *)
(* probability vector over the states of the model of testerplease: it has *)
(* as many entries as the model has states, no entry is negative, the      *)
(* entries sum to 1, and the initial state drawn from it is a state of the *)
(* model.                                                                  *)
(***************************************************************************)
C13_BeliefOverModelStates ==
    drv.pc \in {"loop", "done"} =>
        /\ drv.belief.len = ModelS
        /\ drv.belief.num >= 0 /\ drv.belief.den > 0
        /\ drv.belief.len * drv.belief.num = drv.belief.den
        /\ drv.initialState \in 0 .. ModelS - 1

(***************************************************************************)
(* makeTigerProblem (tiger_door.cpp): the tiger model.  Probabilities are  *)
(* in hundredths (1.0 is 100, 0.85 is 85, 1.0 / S is 50), rewards in whole *)
(* units.  tig holds the three tables while the builder fills them, then   *)
(* an episode of environment steps on the model it returned.               *)
(***************************************************************************)
TigerS == 2

TigerA == 3

TigerO == 2

A_LISTEN == 0

A_LEFT == 1

A_RIGHT == 2

TIG_LEFT == 0

TIG_RIGHT == 1

Hundred == 100

ListenAccuracy == 85

ListenError == 15

ListenCost == -1

Treasure == 10

TigerPenalty == -100

\* Largest number of environment steps of the episode.
MaxTigerSteps == 3

\* A multi_array of doubles [n1][n2][n3], value-initialised.
Zeroed(n1, n2, n3) ==
    [i \in 0 .. n1 - 1 |-> [j \in 0 .. n2 - 1 |-> [k \in 0 .. n3 - 1 |-> 0]]]

\* Lines 152-161.
TigerTransitionEntry(s, a, s1, old) ==
    IF a = A_LISTEN THEN (IF s1 = s THEN Hundred ELSE old)
    ELSE Hundred \div TigerS

\* Lines 165-179.
TigerObservationEntry(s, a, o) ==
    IF a = A_LISTEN THEN (IF o = s THEN ListenAccuracy ELSE ListenError)
    ELSE Hundred \div TigerO

TigerDoorRewardSame(s, a) == Treasure

\* Lines 188-194: the reward of opening door a when the tiger is at s.
TigerDoorReward(s, a) ==
    IF (s = TIG_LEFT /\ a = A_LEFT) \/ (s = TIG_RIGHT /\ a = A_RIGHT)
    THEN TigerPenalty
    ELSE Treasure

\* Lines 183-194.
TigerRewardEntry(s, a, s1) ==
    IF a = A_LISTEN THEN ListenCost ELSE TigerDoorReward(s, a)

TigerLocals ==
    [pc |-> "transitions",
     transitions |-> Zeroed(TigerS, TigerA, TigerS),
     rewards |-> Zeroed(TigerS, TigerA, TigerS),
     observations |-> Zeroed(TigerS, TigerA, TigerO),
     \* the episode: the state before the last step, the state, the last
     \* observation, action and reward
     from |-> 0, s |-> 0, o |-> 0, a |-> 0, reward |-> 0, totalReward |-> 0,
     steps |-> 0]

InitTiger ==
    /\ tig = TigerLocals
    /\ args = NotStarted
    /\ rnd = << >>
    /\ env = << >>
    /\ ro = Idle
    /\ ad = Idle
    /\ re = Idle
    /\ rnd2 = << >>
    /\ bld = NotStarted
    /\ drv = NotStarted
    /\ pl = NotStarted

TigerTransitions ==
    /\ tig.pc = "transitions"
    /\ tig' = [tig EXCEPT
          !.pc = "observations",
          !.transitions =
              [s \in 0 .. TigerS - 1 |-> [a \in 0 .. TigerA - 1 |->
                  [s1 \in 0 .. TigerS - 1 |->
                      TigerTransitionEntry(s, a, s1, tig.transitions[s][a][s1])]]]]
    /\ UNCHANGED <<args, rnd, env, ro, ad, re, rnd2, bld, drv, pl>>

TigerObservations ==
    /\ tig.pc = "observations"
    /\ tig' = [tig EXCEPT
          !.pc = "rewards",
          !.observations =
              [s \in 0 .. TigerS - 1 |-> [a \in 0 .. TigerA - 1 |->
                  [o \in 0 .. TigerO - 1 |-> TigerObservationEntry(s, a, o)]]]]
    /\ UNCHANGED <<args, rnd, env, ro, ad, re, rnd2, bld, drv, pl>>

TigerRewards ==
    /\ tig.pc = "rewards"
    /\ tig' = [tig EXCEPT
          !.pc = "return",
          !.rewards =
              [s \in 0 .. TigerS - 1 |-> [a \in 0 .. TigerA - 1 |->
                  [s1 \in 0 .. TigerS - 1 |-> TigerRewardEntry(s, a, s1)]]]]
    /\ UNCHANGED <<args, rnd, env, ro, ad, re, rnd2, bld, drv, pl>>

\* Lines 197-201; the tiger is then behind either door.
TigerReturn ==
    /\ tig.pc = "return"
    /\ \E s \in 0 .. TigerS - 1 : tig' = [tig EXCEPT !.pc = "built", !.s = s]
    /\ UNCHANGED <<args, rnd, env, ro, ad, re, rnd2, bld, drv, pl>>

\* The model's sampleSOR(s, a) on the tables (library code): a next state
\* and an observation of positive probability, and rewards[s][a][s1].
TigerSOR(s, a) ==
    {sor \in (0 .. TigerS - 1) \X (0 .. TigerO - 1) \X {tig.rewards[s][a][s1] : s1 \in 0 .. TigerS - 1} :
        /\ tig.transitions[s][a][sor[1]] > 0
        /\ tig.observations[sor[1]][a][sor[2]] > 0
        /\ sor[3] = tig.rewards[s][a][sor[1]]}

TigerStep ==
    /\ tig.pc = "built"
    /\ tig.steps < MaxTigerSteps
    /\ \E a \in 0 .. TigerA - 1 : \E sor \in TigerSOR(tig.s, a) :
          tig' = [tig EXCEPT !.a = a, !.from = tig.s, !.s = sor[1], !.o = sor[2],
                             !.reward = sor[3], !.totalReward = @ + sor[3],
                             !.steps = @ + 1]
    /\ UNCHANGED <<args, rnd, env, ro, ad, re, rnd2, bld, drv, pl>>

NextTiger ==
    \/ TigerTransitions \/ TigerObservations \/ TigerRewards \/ TigerReturn
    \/ TigerStep

SpecTiger == InitTiger /\ [][NextTiger]_vars

(***************************************************************************)
(* C14.  makeTigerProblem builds the tiger model: 2 states, 3 actions, 2   *)
(* observations; listening leaves the state unchanged with probability 1,  *)
(* reports the tiger's side with probability 0.85 and costs -1 in every    *)
(* state; opening a door moves to each state with probability 1/2, gives   *)
(* each observation with probability 1/2 and is rewarded -100 when the     *)
(* tiger is behind that door and +10 otherwise; every transition row and   *)
(* every observation row sums to 1.                                        *)
(***************************************************************************)
RowSum(row) == SeqSum([k \in 1 .. Cardinality(DOMAIN row) |-> row[k - 1]])

DoorOf(s) == IF s = TIG_LEFT THEN A_LEFT ELSE A_RIGHT

C14_TigerModel ==
    tig.pc = "built" =>
        /\ DOMAIN tig.transitions = 0 .. 1
        /\ \A s \in 0 .. 1 :
              /\ DOMAIN tig.transitions[s] = 0 .. 2
              /\ DOMAIN tig.observations[s] = 0 .. 2
              /\ DOMAIN tig.observations[s][A_LISTEN] = 0 .. 1
              /\ tig.transitions[s][A_LISTEN][s] = 100
              /\ tig.transitions[s][A_LISTEN][1 - s] = 0
              /\ tig.observations[s][A_LISTEN][s] = 85
              /\ \A s1 \in 0 .. 1 : tig.rewards[s][A_LISTEN][s1] = -1
              /\ \A a \in {A_LEFT, A_RIGHT}, x \in 0 .. 1 :
                    /\ tig.transitions[s][a][x] = 50
                    /\ tig.observations[s][a][x] = 50
                    /\ tig.rewards[s][a][x] = IF a = DoorOf(s) THEN -100 ELSE 10
              /\ \A a \in 0 .. 2 :
                    /\ RowSum(tig.transitions[s][a]) = 100
                    /\ RowSum(tig.observations[s][a]) = 100
        /\ tig.steps >= 1 =>
              /\ tig.a = A_LISTEN => tig.s = tig.from /\ tig.reward = -1
              /\ tig.a # A_LISTEN =>
                    tig.reward = IF tig.a = DoorOf(tig.from) THEN -100 ELSE 10

C14_Witness ==
    /\ tig.pc = "built"
    /\ tig.steps = 2
    /\ tig.a = A_LEFT
    /\ tig.from = TIG_LEFT
    /\ tig.reward = -100
    /\ tig.totalReward = -101

(***************************************************************************)
(* The online planner (AIToolbox::POMDP::POMCP), from its design: the      *)
(* search tree of section 4.4 and the planner of section 4.5, on a toy     *)
(* model with two states, two actions and two observations.                *)
(*                                                                         *)
(*   action 0 (look): the state stays, the observation is the state,       *)
(*                    reward 0;                                            *)
(*   action 1 (act):  reward 1 in state 1 and 0 in state 0, the state     *)
(*                    stays, the observation is 0.                         *)
(* discount() is 1 and no state is terminal.                               *)
(*                                                                         *)
(* An observation node is a record                                         *)
(*   N      its visit count N(h)                                           *)
(*   NA[a]  the visit count N(h,a) of its action node a                    *)
(*   V[a]   the estimate V(h,a), in units of 1/ValueUnit                   *)
(*   child[<<a, o>>]  the id of the observation node under action a and    *)
(*                    observation o, NoNode before it is created           *)
(*   hist   the actions and observations that lead to it                   *)
(* and pl.nodes maps the ids of the nodes that exist to their records.     *)
(***************************************************************************)
PStates == {0, 1}

PActions == {0, 1}

PObservations == {0, 1}

\* sampleTransitionObservationReward(s, a): the outcomes <<s1, o, reward>>.
PStep(s, a) ==
    IF a = 0 THEN {<<s, s, 0>>}
    ELSE {<<s, 0, IF s = 1 THEN 1 ELSE 0>>}

\* The values the rollout estimator returns for the remainder.
RolloutEstimates == {0, 1}

\* The simulation budget of one search.
IterationBudget == 3

\* The depth cap of a simulation.
MaxTreeDepth == 2

\* Largest number of real steps of an episode.
MaxRealSteps == 1

MaxVisits == IterationBudget * (MaxRealSteps + 1)

RECURSIVE Gcd(_, _)
Gcd(x, y) == IF y = 0 THEN x ELSE Gcd(y, x % y)

RECURSIVE LcmUpTo(_)
LcmUpTo(n) ==
    IF n <= 1 THEN 1
    ELSE LET below == LcmUpTo(n - 1) IN (below * n) \div Gcd(below, n)

\* Every running mean of up to MaxVisits integer returns is a whole number
\* of 1/ValueUnit.
ValueUnit == LcmUpTo(MaxVisits)

NoNode == 0

FreshNode(hist) ==
    [N |-> 0,
     NA |-> [a \in PActions |-> 0],
     V |-> [a \in PActions |-> 0],
     child |-> [k \in PActions \X PObservations |-> NoNode],
     hist |-> hist]

\* 1000 * ln(n), rounded, for n = 1 .. 16.
LnMilli ==
    <<0, 693, 1099, 1386, 1609, 1792, 1946, 2079,
      2197, 2303, 2398, 2485, 2565, 2639, 2708, 2773>>

\* The integer square root of v, lo * lo <= v < hi * hi.
RECURSIVE ISqrtBetween(_, _, _)
ISqrtBetween(v, lo, hi) ==
    IF hi - lo <= 1 THEN lo
    ELSE LET mid == (lo + hi) \div 2
         IN  IF mid * mid <= v THEN ISqrtBetween(v, mid, hi)
             ELSE ISqrtBetween(v, lo, mid)

\* 100 * sqrt(ln(N) / n), rounded down.
BonusCenti(N, n) == ISqrtBetween((10 * LnMilli[N]) \div n, 0, 256)

\* The exploration constant c.
ToyExploration == 1

\* V(h,a) + c * sqrt(log N(h) / N(h,a)), in units of 1/(100 * ValueUnit).
Ucb(node, a) ==
    100 * node.V[a] + ValueUnit * ToyExploration * BonusCenti(node.N, node.NA[a])

LowestOf(actions) == CHOOSE a \in actions : \A b \in actions : a <= b

Untried(node) == {a \in PActions : node.NA[a] = 0}

SelectActionIgnoringCounts(node) ==
    LowestOf({a \in PActions : \A b \in PActions : node.V[b] <= node.V[a]})

\* Selection policy at an observation node.
SelectAction(node) ==
    IF Untried(node) # {} THEN LowestOf(Untried(node))
    ELSE LET score == [a \in PActions |-> Ucb(node, a)]
         IN  LowestOf({a \in PActions : \A b \in PActions : score[b] <= score[a]})

BackpropagateNoCount(node, a, x) ==
    [node EXCEPT !.V[a] = @ + (x * ValueUnit - @) \div (node.NA[a] + 1),
                 !.N = @ + 1]

\* Backpropagation of the return x (reward + gamma * G) of action a.
Backpropagate(node, a, x) ==
    [node EXCEPT !.V[a] = @ + (x * ValueUnit - @) \div (node.NA[a] + 1),
                 !.NA[a] = @ + 1,
                 !.N = @ + 1]

\* The sampled outcome of (s, a); the toy model has one.
PSample(s, a) == CHOOSE x \in PStep(s, a) : TRUE

(***************************************************************************)
(* One simulation from node id in state s: select an action, sample a      *)
(* step, descend into the child if it exists, else create it and estimate  *)
(* the remainder by a rollout; then backpropagate.  tape[d] is the return  *)
(* of the rollout if it is made at depth d.  The value is the new nodes,   *)
(* the next free id and the simulation's return.                           *)
(***************************************************************************)
RECURSIVE Simulate(_, _, _, _, _, _)
Simulate(nodes, next, id, s, depth, tape) ==
    IF depth >= MaxTreeDepth THEN [nodes |-> nodes, next |-> next, ret |-> 0]
    ELSE
      LET a == SelectAction(nodes[id])
          out == PSample(s, a)
          key == <<a, out[2]>>
          kid == nodes[id].child[key]
      IN  IF kid = NoNode
          THEN LET x == out[3] + tape[depth + 1]
                   grown == [nodes EXCEPT ![id].child[key] = next]
                            @@ (next :> FreshNode(nodes[id].hist \o key))
               IN  [nodes |-> [grown EXCEPT ![id] = Backpropagate(@, a, x)],
                    next |-> next + 1,
                    ret |-> x]
          ELSE LET below == Simulate(nodes, next, kid, out[1], depth + 1, tape)
                   x == out[3] + below.ret
               IN  [nodes |-> [below.nodes EXCEPT ![id] = Backpropagate(@, a, x)],
                    next |-> below.next,
                    ret |-> x]

RECURSIVE Subtree(_, _)
Subtree(nodes, id) ==
    {id} \cup UNION {Subtree(nodes, nodes[id].child[k]) :
                       k \in {k \in DOMAIN nodes[id].child : nodes[id].child[k] # NoNode}}

ReRootKeepSiblings(nodes, root, next, a, o) ==
    LET kid == nodes[root].child[<<a, o>>]
    IN  IF kid = NoNode
        THEN [nodes |-> next :> FreshNode(nodes[root].hist \o <<a, o>>),
              root |-> next, next |-> next + 1]
        ELSE [nodes |-> [i \in DOMAIN nodes \ {root} |-> nodes[i]],
              root |-> kid, next |-> next]

\* Re-rooting after the real action a and observation o.
ReRoot(nodes, root, next, a, o) ==
    LET kid == nodes[root].child[<<a, o>>]
    IN  IF kid = NoNode
        THEN [nodes |-> next :> FreshNode(nodes[root].hist \o <<a, o>>),
              root |-> next, next |-> next + 1]
        ELSE [nodes |-> [i \in Subtree(nodes, kid) |-> nodes[i]],
              root |-> kid, next |-> next]

\* Belief update: the states an accepted particle can be in.
UpdateBelief(belief, a, o) ==
    {x[1] : x \in {y \in UNION {PStep(s, a) : s \in belief} : y[2] = o}}

RootVisits(nodes, root) ==
    SeqSum([k \in 1 .. Cardinality(PActions) |-> nodes[root].NA[k - 1]])

HighestValue(node) ==
    {a \in PActions : \A b \in PActions : node.V[b] <= node.V[a]}

\* The root actions a search may recommend.
MostVisited(node) ==
    {a \in PActions : \A b \in PActions : node.NA[b] <= node.NA[a]}

InitPlanner ==
    /\ \E belief \in (SUBSET PStates) \ {{}} :
          pl = [pc |-> "idle", nodes |-> << >>, root |-> NoNode, next |-> 1,
                belief |-> belief, sims |-> 0, inherited |-> 0, searches |-> 0,
                steps |-> 0, history |-> << >>, rec |-> 0]
    /\ args = NotStarted
    /\ rnd = << >>
    /\ env = << >>
    /\ ro = Idle
    /\ ad = Idle
    /\ re = Idle
    /\ rnd2 = << >>
    /\ bld = NotStarted
    /\ tig = NotStarted
    /\ drv = NotStarted

\* sampleAction(belief, stepsRemaining): a search from a fresh root.
PlannerSampleAction ==
    /\ pl.pc = "idle"
    /\ pl.searches = 0
    /\ pl' = [pl EXCEPT !.pc = "searching",
                        !.nodes = pl.next :> FreshNode(<< >>),
                        !.root = pl.next,
                        !.next = @ + 1,
                        !.history = << >>,
                        !.sims = 0,
                        !.inherited = 0]
    /\ UNCHANGED <<args, rnd, env, ro, ad, re, rnd2, bld, tig, drv>>

PlannerSimulate ==
    /\ pl.pc = "searching"
    /\ pl.sims < IterationBudget
    /\ \E s \in pl.belief, tape \in [1 .. MaxTreeDepth -> RolloutEstimates] :
          LET sim == Simulate(pl.nodes, pl.next, pl.root, s, 0, tape)
          IN  pl' = [pl EXCEPT !.nodes = sim.nodes, !.next = sim.next,
                               !.sims = @ + 1]
    /\ UNCHANGED <<args, rnd, env, ro, ad, re, rnd2, bld, tig, drv>>

\* The budget is exhausted: the recommendation.
PlannerRecommend ==
    /\ pl.pc = "searching"
    /\ pl.sims = IterationBudget
    /\ \E a \in MostVisited(pl.nodes[pl.root]) :
          pl' = [pl EXCEPT !.pc = "idle", !.rec = a, !.searches = @ + 1]
    /\ UNCHANGED <<args, rnd, env, ro, ad, re, rnd2, bld, tig, drv>>

\* sampleAction(action, observation, stepsRemaining): the real step, then
\* the next search.
PlannerRealStep ==
    /\ pl.pc = "idle"
    /\ pl.searches >= 1
    /\ pl.steps < MaxRealSteps
    /\ \E a \in PActions, o \in PObservations :
          /\ UpdateBelief(pl.belief, a, o) # {}
          /\ LET moved == ReRoot(pl.nodes, pl.root, pl.next, a, o)
             IN  pl' = [pl EXCEPT !.pc = "searching",
                                  !.nodes = moved.nodes,
                                  !.root = moved.root,
                                  !.next = moved.next,
                                  !.belief = UpdateBelief(pl.belief, a, o),
                                  !.history = @ \o <<a, o>>,
                                  !.steps = @ + 1,
                                  !.sims = 0,
                                  !.inherited = RootVisits(moved.nodes, moved.root)]
    /\ UNCHANGED <<args, rnd, env, ro, ad, re, rnd2, bld, tig, drv>>

NextPlanner ==
    \/ PlannerSampleAction \/ PlannerSimulate \/ PlannerRecommend
    \/ PlannerRealStep

SpecPlanner == InitPlanner /\ [][NextPlanner]_vars

(***************************************************************************)
(* C15.  Selection tries never-tried actions first, lowest index first: a  *)
(* node through which k <= |A| simulations have passed has tried exactly   *)
(* the actions 0 .. k-1, each once; so whenever a node has a never-tried   *)
(* action, no action of it has been tried twice and the next selected one  *)
(* is the lowest never-tried action.                                       *)
(***************************************************************************)
C15_UntriedFirst ==
    \A id \in DOMAIN pl.nodes :
        LET node == pl.nodes[id]
        IN  /\ node.N <= Cardinality(PActions) =>
                  \A a \in PActions : node.NA[a] = IF a < node.N THEN 1 ELSE 0
            /\ Untried(node) # {} =>
                  /\ node.N < Cardinality(PActions)
                  /\ SelectAction(node) = node.N
                  /\ node.NA[SelectAction(node)] = 0

C15_Witness ==
    /\ pl.root # NoNode
    /\ \A a \in PActions : pl.nodes[pl.root].NA[a] >= 1
    /\ \E id \in DOMAIN pl.nodes :
          /\ id # pl.root
          /\ pl.nodes[id].N = 1
          /\ pl.nodes[id].NA[0] = 1
          /\ pl.nodes[id].NA[1] = 0

(***************************************************************************)
(* C16.  Visit counts are conserved: the visit counts N(root, a) of the    *)
(* root sum to the root's count at the start of the search plus the number *)
(* of simulations made since (each simulation adds exactly 1), and a       *)
(* search of the full budget from a fresh root ends with the sum equal to  *)
(* the budget.                                                             *)
(***************************************************************************)
C16_VisitsConserved ==
    pl.root # NoNode =>
        /\ RootVisits(pl.nodes, pl.root) = pl.inherited + pl.sims
        /\ pl.nodes[pl.root].N = RootVisits(pl.nodes, pl.root)
        /\ pl.pc = "idle" /\ pl.inherited = 0 =>
              RootVisits(pl.nodes, pl.root) = IterationBudget

C16_Witness ==
    /\ pl.pc = "idle"
    /\ pl.searches = 2
    /\ pl.inherited = 0
    /\ RootVisits(pl.nodes, pl.root) = IterationBudget
    /\ \A a \in PActions : pl.nodes[pl.root].NA[a] >= 1

(***************************************************************************)
(* C17.  Once the budget is exhausted the recommended action is a root     *)
(* action of maximal visit count, also when another root action has a      *)
(* strictly higher value estimate.                                         *)
(***************************************************************************)
C17_RecommendsMostVisited ==
    pl.pc = "idle" /\ pl.searches >= 1 =>
        /\ pl.rec \in PActions
        /\ \A b \in PActions :
              pl.nodes[pl.root].NA[b] <= pl.nodes[pl.root].NA[pl.rec]

C17_Witness ==
    /\ pl.pc = "idle"
    /\ pl.searches >= 1
    /\ \E b \in PActions :
          /\ pl.nodes[pl.root].V[b] > pl.nodes[pl.root].V[pl.rec]
          /\ pl.nodes[pl.root].NA[b] < pl.nodes[pl.root].NA[pl.rec]

(***************************************************************************)
(* C18.  After any searches and real steps the root is the node of the     *)
(* real history (the child of the old root under a* then o*, fresh if it   *)
(* was never visited), the nodes that exist are exactly those of the       *)
(* root's subtree, every child is the node of its parent's history         *)
(* extended by its action and observation, and every node but the root     *)
(* has exactly one parent (the root none).                                 *)
(***************************************************************************)
Owners(id) ==
    {link \in (DOMAIN pl.nodes) \X (PActions \X PObservations) :
        pl.nodes[link[1]].child[link[2]] = id}

C18_ReRootedTree ==
    pl.root # NoNode =>
        /\ pl.root \in DOMAIN pl.nodes
        /\ pl.nodes[pl.root].hist = pl.history
        /\ \A id \in DOMAIN pl.nodes, k \in PActions \X PObservations :
              pl.nodes[id].child[k] # NoNode =>
                  /\ pl.nodes[id].child[k] \in DOMAIN pl.nodes
                  /\ pl.nodes[pl.nodes[id].child[k]].hist = pl.nodes[id].hist \o k
        /\ \A id \in DOMAIN pl.nodes :
              Cardinality(Owners(id)) = IF id = pl.root THEN 0 ELSE 1
        /\ Subtree(pl.nodes, pl.root) = DOMAIN pl.nodes
        /\ pl.pc = "searching" /\ pl.sims = 0 /\ pl.inherited = 0 =>
              pl.nodes = pl.root :> FreshNode(pl.history)

C18_Witness ==
    /\ pl.steps = 1
    /\ pl.pc = "searching"
    /\ pl.sims = 0
    /\ pl.inherited >= 1
    /\ Cardinality(DOMAIN pl.nodes) >= 2
    /\ pl.next - 1 - Cardinality(DOMAIN pl.nodes) >= 2

(***************************************************************************)
(* C21.  rollout and adaptiveRollout never call sampleSR on a terminal     *)
(* state, whatever the start state is; started in a terminal state they    *)
(* sample no step and return 0.                                            *)
(***************************************************************************)
C21_NeverSamplesTerminalOf(st) ==
    /\ \A i \in 1 .. Len(st.acts) : ~isTerminal(args.m, st.acts[i][1])
    /\ (isTerminal(args.m, args.s) /\ st.pc = "done") =>
          st.nSample = 0 /\ st.result = 0

C21_NeverSamplesTerminal ==
    C21_NeverSamplesTerminalOf(ro) /\ C21_NeverSamplesTerminalOf(ad)

(***************************************************************************)
(* C22.  For every parameter value, windowSize = 0 included, the           *)
(* convergence check of adaptiveRollout never reads the latest entry of an *)
(* empty window and never divides windowSum by a windowSize of zero: at    *)
(* every step whose check is due the window has an entry and windowSize is *)
(* not 0, and the call never aborts.                                       *)
(***************************************************************************)
\* The size of the window after the push and pop of step i.
WindowSizeAt(i) == Min(i, args.windowSize)

\* Step i reaches the body of the convergence check.
CheckEntered(st, i) ==
    /\ ~isTerminal(args.m, st.visited[i])
    /\ CheckDue(i - 1, args.minDepth, WindowSizeAt(i), args.windowSize)

C22_CheckReadsNonEmptyWindow ==
    /\ ad.pc # "abort"
    /\ Len(ad.rewardWindow) = WindowSizeAt(Len(ad.visited))
    /\ \A i \in 1 .. Len(ad.visited) :
          CheckEntered(ad, i) => WindowSizeAt(i) >= 1 /\ args.windowSize # 0

(***************************************************************************)
(* C23.  With threshold <= 0 and windowSize >= 1 adaptiveRollout never     *)
(* returns by convergence: on the same model, arguments and random stream  *)
(* it takes the steps rollout takes and returns the value rollout returns. *)
(***************************************************************************)
C23_NonPositiveThresholdIsRollout ==
    (args.threshold <= 0 /\ args.windowSize >= 1) =>
        /\ ad.why # "converged"
        /\ ad.pc # "abort"
        /\ AgreeOnCommonSteps(ad.acts, ro.acts)
        /\ AgreeOnCommonSteps(ad.visited, ro.visited)
        /\ AgreeOnCommonSteps(ad.rews, ro.rews)
        /\ (ad.pc = "done" /\ ro.pc = "done") =>
              /\ ad.result = ro.result
              /\ ad.acts = ro.acts
              /\ ad.visited = ro.visited
              /\ ad.why = ro.why

C23_Witness ==
    /\ args.threshold = 0
    /\ args.windowSize = 1
    /\ args.minDepth = 0
    /\ args.maxDepth = 3
    /\ ad.pc = "done" /\ ro.pc = "done"
    /\ Len(ad.visited) = 3
    /\ \A i \in 1 .. 3 : CheckEntered(ad, i)
    /\ ad.result # 0

(***************************************************************************)
(* C24.  With windowSize = 1 and threshold > 0 the convergence test is     *)
(* satisfied as soon as it is reached (the window holds the latest reward  *)
(* alone): when minDepth < maxDepth and none of the first minDepth + 1     *)
(* steps lands in a terminal state, adaptiveRollout takes exactly          *)
(* minDepth + 1 steps and returns by convergence, whatever the rewards.    *)
(***************************************************************************)
C24_Case ==
    /\ args.windowSize = 1
    /\ args.threshold > 0
    /\ args.minDepth < args.maxDepth

SameRun(a, b) ==
    /\ a.pc = b.pc
    /\ a.result = b.result
    /\ a.acts = b.acts
    /\ a.visited = b.visited
    /\ a.rews = b.rews
    /\ a.nDraw = b.nDraw

C25_BranchesAgree ==
    /\ AgreeOnCommonSteps(re.acts, FirstCall.acts)
    /\ AgreeOnCommonSteps(re.visited, FirstCall.visited)
    /\ (Finished(re) /\ Finished(FirstCall)) => SameRun(re, FirstCall)

\* The same statement away from the empty window, for both functions.
C25_BranchesAgreeDefinedWindow ==
    (re.fn = "rollout" \/ args.windowSize >= 1) => C25_BranchesAgree

C25_DefinedWindowWitness ==
    /\ re.fn = "adaptiveRollout"
    /\ args.m = "Duo"
    /\ args.windowSize = 1
    /\ Finished(re)
    /\ Len(re.acts) = 2
    /\ re.acts[1] # re.acts[2]
    /\ re.result # 0

(***************************************************************************)
(* C26.  In the model testerplease builds, every row transitions[s][a][*]  *)
(* has entries in [0, 1] that sum to 1, every write of the builder has its *)
(* indices inside the tables, and the validation loop reports no row.      *)
(***************************************************************************)
\* The row the fill loop has just left.
RowFilled == bld.pc = "fill" /\ bld.s > 0

C26_RowIsDistribution(s) ==
    /\ RowInBounds(s)
    /\ \A i \in DOMAIN TransitionWrites(s) :
          TransitionWrites(s)[i].v >= 0 /\ TransitionWrites(s)[i].v <= ProbOne
    /\ \A a \in 0 .. ModelA - 1 : TransitionRowSum(s, a) = ProbOne

C26_TransitionRowsValid ==
    /\ bld.pc # "abort"
    /\ bld.outside = {}
    /\ bld.reported = {}
    /\ RowFilled => C26_RowIsDistribution(bld.s - 1)

(***************************************************************************)
(* C27.  Every row observations[s][a][*] sums to 1; for a check of a rock  *)
(* that is not sampled, good + bad + none = 1.                             *)
(***************************************************************************)
C27_ObservationRowsSumToOne ==
    RowFilled =>
        \A a \in 0 .. ModelA - 1 : ObservationRowSum(bld.s - 1, a) = Prob(1, 0)

(***************************************************************************)
(* C28.  Where s stands on a rock r that is not sampled, the sample action *)
(* moves with probability 1 to s with rock r's ternary digit set to 2      *)
(* (same position, other rocks unchanged, index below S), with reward +10  *)
(* if the digit was 1 and -10 otherwise; in every other state it leaves    *)
(* the state unchanged with reward -10.                                    *)
(***************************************************************************)
\* s with the ternary digit of rock r set to 2.
WithDigitTwo(s, r) == s + (2 - getRockState(s, r)) * 25 * Pow(3, r)

OnUnsampledRock(s, r) ==
    /\ ROCK_POSITIONS[r + 1] = <<PosX(s), PosY(s)>>
    /\ getRockState(s, r) \in {0, 1}

SampleMovesTo(s, sp, rew) ==
    /\ sp < ModelS
    /\ transitions(s, 4, sp) = ProbOne
    /\ TransitionRowSum(s, 4) = ProbOne
    /\ rewards(s, 4, sp) = rew

C28_SampleOf(s) ==
    IF \E r \in 0 .. NUM_ROCKS - 1 : OnUnsampledRock(s, r)
    THEN \A r \in 0 .. NUM_ROCKS - 1 :
            OnUnsampledRock(s, r) =>
                SampleMovesTo(s, WithDigitTwo(s, r),
                              IF getRockState(s, r) = 1 THEN 10 ELSE -10)
    ELSE SampleMovesTo(s, s, -10)

C28_SampleSetsDigit ==
    RowFilled => C28_SampleOf(bld.s - 1)

(***************************************************************************)
(* C29.  POMCProck(horizon) runs exactly horizon loop iterations with      *)
(* t = horizon, horizon - 1, ..., 1 and then terminates; each iteration    *)
(* performs one sampleSOR(currentState, action) with the action the        *)
(* planner has just returned and sets currentState to the sampled next     *)
(* state; the value returned is the undiscounted sum of the horizon        *)
(* sampled rewards, 0 when horizon = 0.                                    *)
(***************************************************************************)
\* The loop, in the runs that get past the construction of the model.
C29_LoopShape ==
    /\ drv.pc \in {"loop", "done"} =>
          /\ drv.iter <= drv.horizon
          /\ drv.t = drv.horizon - drv.iter
          /\ drv.ts = [i \in 1 .. drv.iter |-> drv.horizon - i + 1]
          /\ Len(drv.rews) = drv.iter
          /\ drv.totalReward = SeqSum(drv.rews)
          /\ drv.beliefCalls = drv.iter
          /\ drv.iter >= 1 =>
                /\ drv.decidedBy = "belief"
                /\ drv.currentState = drv.nextState
                /\ drv.reward = Last(drv.rews)
    /\ drv.pc = "done" =>
          /\ drv.iter = drv.horizon
          /\ drv.result = SeqSum(drv.rews)
          /\ drv.horizon = 0 => drv.result = 0

C29_LoopShapeWitness ==
    /\ drv.pc = "done"
    /\ drv.horizon = MaxHorizon
    /\ drv.ts = [i \in 1 .. MaxHorizon |-> MaxHorizon - i + 1]
    /\ drv.rews[1] # drv.rews[2]
    /\ drv.result = 0

C29_RunsHorizonIterations ==
    /\ drv.pc # "aborted"
    /\ C29_LoopShape

====
